---- MODULE Spec2Model ----
(***************************************************************************)
(* A model of simple-redis: the hash commands HGET / HSET / HGETALL        *)
(* (src/cmd/hmap.rs) executed against the shared Backend, and the RESP     *)
(* simple-string codec (src/resp/simple_string.rs).                        *)
(*                                                                         *)
(* Four specifications share the module:                                   *)
(*   Spec      - one client; every command executes atomically.            *)
(*   ConcSpec  - several tasks run commands against one Backend; the       *)
(*               Backend's per-key lock is modelled step by step.          *)
(*   CodecSpec - a growable byte buffer that is extended and decoded.      *)
(*   ParseSpec - a request array is read and converted to a command.       *)
(***************************************************************************)
EXTENDS Integers, Sequences, FiniteSets, TLC

VARIABLES
    hmap,       \* Backend: key -> (field -> RespFrame), a container per key
    resp,       \* the RespFrame the last executed command returned
    lastCmd,    \* the command executed last
    lastSet,    \* history: (key, field) -> the value of the most recent HSet
                \* (in ConcSpec: of the HSet that inserted last)
    overwrote,  \* history: the (key, field) of the last HSet, if it replaced a value
    pc,         \* ConcSpec: task -> position inside its command
    tcmd,       \* ConcSpec: task -> the command it is executing
    snap,       \* ConcSpec: task -> the snapshot hgetall has copied so far
    tresp,      \* ConcSpec: task -> the RespFrame its last command returned
    lock,       \* ConcSpec: key -> [readers, writer] of the key's lock
    committed,  \* ConcSpec history: key -> container after the last finished hset
    seen,       \* ConcSpec history: task -> the committed container of its HGetAll's
                \* key when the lock was taken (for an HGet, the value of the
                \* HSet on its key and field that finished last before the read),
                \* and whether an HSet on the key finished while the HGetAll
                \* was executing
    mode,       \* CodecSpec: "raw" (arbitrary bytes arrive) or "stream" (frames)
    buf,        \* CodecSpec: the BytesMut handed to decode
    res,        \* CodecSpec: the Result of the last decode, until bytes are added
                \* or expect_length is called
    incomplete, \* CodecSpec history: the last decode returned NotComplete
    retried,    \* CodecSpec history: the decode before the last returned NotComplete
    before,     \* CodecSpec history: the buffer as it was when decode or
                \* expect_length was called
    rest,       \* CodecSpec history: bytes of the stream not yet in the buffer
    sent,       \* CodecSpec history: the values encoded into the stream, in order
    got,        \* CodecSpec history: the values decode has returned, in order
    explen,     \* CodecSpec: the Result of expect_length, while it is about the
                \* bytes the buffer holds or the last decode was given
    arr,        \* ParseSpec: the elements of the RespArray read so far
    target,     \* ParseSpec: the command type the array was converted to last
    parsed      \* ParseSpec: the Result of that conversion

seqVars   == <<resp, lastCmd, lastSet, overwrote>>
concVars  == <<pc, tcmd, snap, tresp, lock, committed, seen>>
codecVars == <<mode, buf, res, incomplete, retried, before, rest, sent, got,
               explen>>
parseVars == <<arr, target, parsed>>
vars      == <<hmap, seqVars, concVars, codecVars, parseVars>>

----------------------------------------------------------------------------
(* RespFrame values.  A frame is a record [type, val]; only the variants    *)
(* the hash commands produce or store are needed.                           *)

Keys   == {"k1", "k2"}
Fields == {"f1", "f2"}

BulkString(s) == [type |-> "BulkString", val |-> s]
RespNull      == [type |-> "Null", val |-> ""]
RESP_OK       == [type |-> "SimpleString", val |-> "OK"]
EmptyArray    == [type |-> "Array", val |-> <<>>]
RespMapFrame(m) == [type |-> "Map", val |-> m]

\* The frames a client stores with HSET: any variant is accepted as a value.
Values == {BulkString("a"), BulkString("b"), RespNull, RESP_OK}

EmptyMap == [x \in {} |-> x]

\* Option<T> as a set: None is {}, Some(v) is {v}.
None     == {}
Some(v)  == {v}
Unwrap(o) == CHOOSE v \in o : TRUE

----------------------------------------------------------------------------
(* Backend (crate::Backend): hset / hget / hgetall on key -> container.     *)

\* hset: insert or overwrite value at (key, field), creating the container.
BackendHSet(h, key, field, value) ==
    LET c == IF key \in DOMAIN h THEN h[key] ELSE EmptyMap
        c2 == [y \in DOMAIN c \cup {field} |-> IF y = field THEN value ELSE c[y]]
    IN  [x \in DOMAIN h \cup {key} |-> IF x = key THEN c2 ELSE h[x]]

\* hget: the stored value, or None when the key or the field is absent.
BackendHGet(h, key, field) ==
    IF key \in DOMAIN h /\ field \in DOMAIN h[key]
    THEN Some(h[key][field])
    ELSE None

\* hgetall: a copy of the key's container, or None when the key is absent.
BackendHGetAll(h, key) ==
    IF key \in DOMAIN h THEN Some(h[key]) ELSE None

----------------------------------------------------------------------------
(* CommandExecutor (src/cmd/hmap.rs).                                       *)

HGetCmd(k, f)    == [op |-> "HGet", key |-> k, field |-> f, value |-> RespNull]
HSetCmd(k, f, v) == [op |-> "HSet", key |-> k, field |-> f, value |-> v]
HGetAllCmd(k)    == [op |-> "HGetAll", key |-> k, field |-> "", value |-> RespNull]
NoCmd            == [op |-> "None", key |-> "", field |-> "", value |-> RespNull]

\* Faulty variant: an absent field answered like HGetAll's absent key.
HGetResult_EmptyArrayWhenAbsent(o) ==
    IF o # None THEN Unwrap(o) ELSE EmptyArray

\* HGet::execute given what backend.hget returned.
HGetResult(o) ==
    IF o # None THEN Unwrap(o) ELSE RespNull

HGetExecute(h, cmd) == HGetResult(BackendHGet(h, cmd.key, cmd.field))

\* Faulty variant: the lookup goes through entry(key).or_default(), which
\* gives an absent key an empty container.
HGetBackend_CreateContainer(h, cmd) ==
    [x \in DOMAIN h \cup {cmd.key} |->
        IF x \in DOMAIN h THEN h[x] ELSE EmptyMap]

\* HGet::execute: the backend after backend.hget(&key, &field), its only use
\* of the backend.
HGetBackend(h, cmd) == h

\* Faulty variant: the first value written to (key, field) is kept.
HSetBackend_KeepFirst(h, cmd) ==
    IF BackendHGet(h, cmd.key, cmd.field) # None
    THEN h
    ELSE BackendHSet(h, cmd.key, cmd.field, cmd.value)

\* Faulty variant: the key's container is replaced by one holding only the field.
HSetBackend_ReplaceContainer(h, cmd) ==
    [x \in DOMAIN h \cup {cmd.key} |->
        IF x = cmd.key THEN [y \in {cmd.field} |-> cmd.value] ELSE h[x]]

\* Faulty variant: the field is written only when the key has a container.
HSetBackend_ExistingKeyOnly(h, cmd) ==
    IF cmd.key \in DOMAIN h
    THEN BackendHSet(h, cmd.key, cmd.field, cmd.value)
    ELSE h

\* Faulty variant: the Null frame is stored whatever the value given.
HSetBackend_StoreNull(h, cmd) ==
    BackendHSet(h, cmd.key, cmd.field, RespNull)

\* HSet::execute: the backend after backend.hset(key, field, value.clone()).
HSetBackend(h, cmd) == BackendHSet(h, cmd.key, cmd.field, cmd.value)

\* Faulty variant: the value written is returned instead of OK.
HSetResult_EchoValue(cmd) == cmd.value

\* HSet::execute: the frame it returns, RESP_OK.clone().
HSetResult(cmd) == RESP_OK

\* Faulty variant: the iteration misses the first pair.
IntoIter_SkipFirst(m, perm) ==
    [i \in 1..(Len(perm) - 1) |-> <<perm[i + 1], m[perm[i + 1]]>>]

\* hmap.into_iter(): the (field, value) pairs of the snapshot, in the order
\* perm gives (the iteration order of the container is unspecified).
IntoIter(m, perm) == [i \in 1..Len(perm) |-> <<perm[i], m[perm[i]]>>]

\* The orders in which a container with these fields may be iterated.
IterOrders(S) ==
    {p \in [1..Cardinality(S) -> S] : \A x \in S : \E i \in DOMAIN p : p[i] = x}

\* .collect() into RespMap (a BTreeMap): insert the pairs one by one.
RECURSIVE Collect(_, _)
Collect(pairs, acc) ==
    IF pairs = <<>> THEN acc
    ELSE LET p == Head(pairs)
         IN  Collect(Tail(pairs),
                     [y \in DOMAIN acc \cup {p[1]} |->
                         IF y = p[1] THEN p[2] ELSE acc[y]])

\* Faulty variant: hgetall gives an absent key an empty container before it
\* copies.
HGetAllBackend_CreateContainer(h, cmd) ==
    [x \in DOMAIN h \cup {cmd.key} |->
        IF x \in DOMAIN h THEN h[x] ELSE EmptyMap]

\* HGetAll::execute: the backend after backend.hgetall(&key), its only use of
\* the backend.
HGetAllBackend(h, cmd) == h

\* Faulty variant: an absent key answered with an empty Map.
HGetAllResult_EmptyMapWhenAbsent(o, perm) ==
    IF o # None
    THEN RespMapFrame(Collect(IntoIter(Unwrap(o), perm), EmptyMap))
    ELSE RespMapFrame(EmptyMap)

\* HGetAll::execute given what backend.hgetall returned and an iteration order.
HGetAllResult(o, perm) ==
    IF o # None
    THEN RespMapFrame(Collect(IntoIter(Unwrap(o), perm), EmptyMap))
    ELSE EmptyArray

----------------------------------------------------------------------------
(* The RESP simple-string codec (src/resp/simple_string.rs).  A byte is an  *)
(* integer 0..255, a text (Rust String) a sequence of Unicode scalar values.*)

CR   == 13
LF   == 10
Plus == 43

\* const PREFIX: &'static str = "+", as bytes.
PREFIX == <<Plus>>

\* CRLF_LEN (resp/mod.rs): the length of the terminator "\r\n".
CRLF_LEN == 2

\* U+FFFD REPLACEMENT CHARACTER, what from_utf8_lossy puts for invalid bytes.
REPLACEMENT == 65533

Take(s, n) == SubSeq(s, 1, n)
Drop(s, n) == SubSeq(s, n + 1, Len(s))

\* char::encode_utf8 for scalar values below U+10000.
Utf8Char(c) ==
    IF c < 128 THEN <<c>>
    ELSE IF c < 2048 THEN <<192 + (c \div 64), 128 + (c % 64)>>
    ELSE <<224 + (c \div 4096), 128 + ((c \div 64) % 64), 128 + (c % 64)>>

\* The bytes of a String.
RECURSIVE Utf8(_)
Utf8(text) ==
    IF text = <<>> THEN <<>> ELSE Utf8Char(Head(text)) \o Utf8(Tail(text))

IsCont(b) == b >= 128 /\ b <= 191

\* The first scalar value of a non-empty byte string as String::from_utf8_lossy
\* reads it, with the number of bytes it takes: an invalid or truncated
\* sequence reads as U+FFFD and takes its maximal valid prefix.
LossyStep(b) ==
    LET b0 == b[1]
        n  == Len(b)
        bad(k) == [char |-> REPLACEMENT, used |-> k]
        \* the second byte's range depends on the lead byte
        ok2 == /\ n >= 2
               /\ IsCont(b[2])
               /\ (b0 = 224 => b[2] >= 160)
               /\ (b0 = 237 => b[2] <= 159)
               /\ (b0 = 240 => b[2] >= 144)
               /\ (b0 = 244 => b[2] <= 143)
    IN  IF b0 < 128 THEN [char |-> b0, used |-> 1]
        ELSE IF b0 >= 194 /\ b0 <= 223 THEN
            IF n >= 2 /\ IsCont(b[2])
            THEN [char |-> (b0 - 192) * 64 + (b[2] - 128), used |-> 2]
            ELSE bad(1)
        ELSE IF b0 >= 224 /\ b0 <= 239 THEN
            IF ~ok2 THEN bad(1)
            ELSE IF n >= 3 /\ IsCont(b[3])
            THEN [char |-> (b0 - 224) * 4096 + (b[2] - 128) * 64 + (b[3] - 128),
                  used |-> 3]
            ELSE bad(2)
        ELSE IF b0 >= 240 /\ b0 <= 244 THEN
            IF ~ok2 THEN bad(1)
            ELSE IF ~(n >= 3 /\ IsCont(b[3])) THEN bad(2)
            ELSE IF n >= 4 /\ IsCont(b[4])
            THEN [char |-> (b0 - 240) * 262144 + (b[2] - 128) * 4096
                             + (b[3] - 128) * 64 + (b[4] - 128),
                  used |-> 4]
            ELSE bad(3)
        ELSE bad(1)

\* String::from_utf8_lossy(bytes).to_string()
RECURSIVE FromUtf8Lossy(_)
FromUtf8Lossy(b) ==
    IF b = <<>> THEN <<>>
    ELSE LET st == LossyStep(b)
         IN  <<st.char>> \o FromUtf8Lossy(Drop(b, st.used))

\* SimpleString::new(s)
SimpleStringNew(s) == s

\* Faulty variant: CR and LF inside the text are left out of the frame.
Encode_DropLineBreaks(text) ==
    LET Kept(c) == c \notin {CR, LF}
    IN  PREFIX \o Utf8(SelectSeq(text, Kept)) \o <<CR, LF>>

\* Faulty variant: the terminator written is "\n" alone.
Encode_NoCarriageReturn(text) == PREFIX \o Utf8(text) \o <<LF>>

\* SimpleString::encode: format!("+{}\r\n", self.0).into_bytes()
Encode(text) == PREFIX \o Utf8(text) \o <<CR, LF>>

\* The 0-based indices at or after the prefix where "\r\n" starts.
CrlfAt(b, from) ==
    {i \in from..(Len(b) - CRLF_LEN) : b[i + 1] = CR /\ b[i + 2] = LF}

Min(S) == CHOOSE x \in S : \A y \in S : x <= y

\* extract_simple_frame_data(buf, prefix) (resp/mod.rs): the 0-based index of
\* the first "\r\n" of a frame that starts with the prefix; NotComplete when
\* the bytes buffered so far hold no terminator.
ExtractSimpleFrameData(b, prefix) ==
    IF Len(b) < Len(prefix) /\ b = Take(prefix, Len(b))
    THEN [tag |-> "NotComplete", end |-> 0]
    ELSE IF Len(b) < Len(prefix) \/ Take(b, Len(prefix)) # prefix
    THEN [tag |-> "InvalidFrameType", end |-> 0]
    ELSE IF CrlfAt(b, Len(prefix)) = {}
    THEN [tag |-> "NotComplete", end |-> 0]
    ELSE [tag |-> "Ok", end |-> Min(CrlfAt(b, Len(prefix)))]

\* Faulty variant: the text is sliced from the start of the frame, prefix included.
DecodeResult_KeepPrefix(b) ==
    LET r == ExtractSimpleFrameData(b, PREFIX)
    IN  IF r.tag = "Ok"
        THEN [tag |-> "Ok", text |-> SimpleStringNew(FromUtf8Lossy(Take(b, r.end)))]
        ELSE [tag |-> r.tag, text |-> <<>>]

\* SimpleString::decode: the Result it returns.  The ? returns the error of
\* extract_simple_frame_data; otherwise the text is data[PREFIX.len()..end].
DecodeResult(b) ==
    LET r == ExtractSimpleFrameData(b, PREFIX)
    IN  IF r.tag = "Ok"
        THEN [tag |-> "Ok",
              text |-> SimpleStringNew(
                           FromUtf8Lossy(SubSeq(b, Len(PREFIX) + 1, r.end)))]
        ELSE [tag |-> r.tag, text |-> <<>>]

\* Faulty variant: the prefix is consumed before the terminator is looked for.
DecodeBuf_AdvanceBeforeCheck(b) ==
    LET r == ExtractSimpleFrameData(b, PREFIX)
    IN  IF r.tag = "Ok" THEN Drop(b, r.end + CRLF_LEN)
        ELSE IF r.tag = "NotComplete" /\ Len(b) >= Len(PREFIX)
        THEN Drop(b, Len(PREFIX))
        ELSE b

\* Faulty variant: split_to(end) leaves the terminator in the buffer.
DecodeBuf_LeaveTerminator(b) ==
    LET r == ExtractSimpleFrameData(b, PREFIX)
    IN  IF r.tag = "Ok" THEN Drop(b, r.end) ELSE b

\* SimpleString::decode: the buffer it leaves.  buf.split_to(end + CRLF_LEN)
\* runs only after extract_simple_frame_data succeeded.
DecodeBuf(b) ==
    LET r == ExtractSimpleFrameData(b, PREFIX)
    IN  IF r.tag = "Ok" THEN Drop(b, r.end + CRLF_LEN) ELSE b

\* Faulty variant: the length stops at the end of the text, terminator left out.
ExpectLength_WithoutTerminator(b) ==
    LET r == ExtractSimpleFrameData(b, PREFIX)
    IN  IF r.tag = "Ok"
        THEN [tag |-> "Ok", len |-> r.end]
        ELSE [tag |-> r.tag, len |-> 0]

\* SimpleString::expect_length(buf)
ExpectLength(b) ==
    LET r == ExtractSimpleFrameData(b, PREFIX)
    IN  IF r.tag = "Ok"
        THEN [tag |-> "Ok", len |-> r.end + CRLF_LEN]
        ELSE [tag |-> r.tag, len |-> 0]

----------------------------------------------------------------------------
(* The command parser (src/cmd/hmap.rs, TryFrom<RespArray>).  A RespArray   *)
(* is a sequence of frames; a bulk string on the wire carries bytes, a      *)
(* parsed command carries Strings.                                          *)

\* The command names, as bytes: "hget", "hset", "hgetall".
HGET    == <<104, 103, 101, 116>>
HSET    == <<104, 115, 101, 116>>
HGETALL == <<104, 103, 101, 116, 97, 108, 108>>

\* [u8]::to_ascii_lowercase: 'A'..'Z' become 'a'..'z', other bytes stay.
ToAsciiLowercase(b) ==
    [i \in DOMAIN b |-> IF b[i] >= 65 /\ b[i] <= 90 THEN b[i] + 32 ELSE b[i]]

\* String::from_utf8(bytes): the String, or None (Utf8Error) when the bytes
\* are not valid UTF-8, that is when a lossy reading had to replace some.
FromUtf8(b) ==
    LET s == FromUtf8Lossy(b)
    IN  IF Utf8(s) = b THEN Some(s) ELSE None

\* Result<Command, CommandError>
ParseOk(cmd)   == [tag |-> "Ok", cmd |-> cmd]
ParseErr(kind) == [tag |-> kind, cmd |-> NoCmd]
InvalidCommand == ParseErr("InvalidCommand")
Utf8Error      == ParseErr("Utf8Error")

\* validate_command(value, names, n_args) (cmd/mod.rs): the array holds
\* 1 + n_args elements and its first element is a bulk string whose
\* lowercased bytes are one of the names.
ValidateCommand(value, names, nArgs) ==
    /\ Len(value) = 1 + nArgs
    /\ value[1].type = "BulkString"
    /\ ToAsciiLowercase(value[1].val) \in names

\* extract_args(value, start) (cmd/mod.rs): the elements after the first
\* start ones, in order.
ExtractArgs(value, start) == Drop(value, start)

\* Iterator::next, the i-th time it is called on args.into_iter().
NextArg(args, i) == IF i <= Len(args) THEN Some(args[i]) ELSE None

IsBulk(o) == o # None /\ Unwrap(o).type = "BulkString"

\* Faulty variant: the arity is not validated and a missing field reads as "".
HGetTryFrom_MissingFieldEmpty(value) ==
    IF ~(Len(value) >= 2 /\ ValidateCommand(Take(value, 1), {HGET}, 0))
    THEN InvalidCommand
    ELSE LET args == ExtractArgs(value, 1)
             a1 == NextArg(args, 1)
             a2 == NextArg(args, 2)
         IN  IF IsBulk(a1) /\ (a2 = None \/ IsBulk(a2))
             THEN LET key == FromUtf8(Unwrap(a1).val)
                      field == IF a2 = None THEN Some(<<>>)
                               ELSE FromUtf8(Unwrap(a2).val)
                  IN  IF key = None THEN Utf8Error
                      ELSE IF field = None THEN Utf8Error
                      ELSE ParseOk(HGetCmd(Unwrap(key), Unwrap(field)))
             ELSE InvalidCommand

\* impl TryFrom<RespArray> for HGet.  Each ? returns its error at once: the
\* key is converted before the field.
HGetTryFrom(value) ==
    IF ~ValidateCommand(value, {HGET}, 2) THEN InvalidCommand
    ELSE LET args == ExtractArgs(value, 1)
             a1 == NextArg(args, 1)
             a2 == NextArg(args, 2)
         IN  IF IsBulk(a1) /\ IsBulk(a2)
             THEN LET key == FromUtf8(Unwrap(a1).val)
                      field == FromUtf8(Unwrap(a2).val)
                  IN  IF key = None THEN Utf8Error
                      ELSE IF field = None THEN Utf8Error
                      ELSE ParseOk(HGetCmd(Unwrap(key), Unwrap(field)))
             ELSE InvalidCommand

\* Faulty variant: the first argument is taken as the field, the second as
\* the key.
HSetTryFrom_SwapKeyField(value) ==
    IF ~ValidateCommand(value, {HSET}, 3) THEN InvalidCommand
    ELSE LET args == ExtractArgs(value, 1)
             a1 == NextArg(args, 1)
             a2 == NextArg(args, 2)
             a3 == NextArg(args, 3)
         IN  IF IsBulk(a1) /\ IsBulk(a2) /\ a3 # None
             THEN LET key == FromUtf8(Unwrap(a2).val)
                      field == FromUtf8(Unwrap(a1).val)
                  IN  IF key = None THEN Utf8Error
                      ELSE IF field = None THEN Utf8Error
                      ELSE ParseOk(HSetCmd(Unwrap(key), Unwrap(field),
                                           Unwrap(a3)))
             ELSE InvalidCommand

\* impl TryFrom<RespArray> for HSet.  The value is any frame.
HSetTryFrom(value) ==
    IF ~ValidateCommand(value, {HSET}, 3) THEN InvalidCommand
    ELSE LET args == ExtractArgs(value, 1)
             a1 == NextArg(args, 1)
             a2 == NextArg(args, 2)
             a3 == NextArg(args, 3)
         IN  IF IsBulk(a1) /\ IsBulk(a2) /\ a3 # None
             THEN LET key == FromUtf8(Unwrap(a1).val)
                      field == FromUtf8(Unwrap(a2).val)
                  IN  IF key = None THEN Utf8Error
                      ELSE IF field = None THEN Utf8Error
                      ELSE ParseOk(HSetCmd(Unwrap(key), Unwrap(field),
                                           Unwrap(a3)))
             ELSE InvalidCommand

\* Faulty variant: the key is read with from_utf8_lossy, which never fails.
HGetAllTryFrom_LossyKey(value) ==
    IF ~ValidateCommand(value, {HGETALL}, 1) THEN InvalidCommand
    ELSE LET args == ExtractArgs(value, 1)
             a1 == NextArg(args, 1)
         IN  IF IsBulk(a1)
             THEN ParseOk(HGetAllCmd(FromUtf8Lossy(Unwrap(a1).val)))
             ELSE InvalidCommand

\* impl TryFrom<RespArray> for HGetAll.
HGetAllTryFrom(value) ==
    IF ~ValidateCommand(value, {HGETALL}, 1) THEN InvalidCommand
    ELSE LET args == ExtractArgs(value, 1)
             a1 == NextArg(args, 1)
         IN  IF IsBulk(a1)
             THEN LET key == FromUtf8(Unwrap(a1).val)
                  IN  IF key = None THEN Utf8Error
                      ELSE ParseOk(HGetAllCmd(Unwrap(key)))
             ELSE InvalidCommand

----------------------------------------------------------------------------
(* The values the variables of the other specifications hold while one      *)
(* specification runs.                                                      *)

Tasks == {"t1", "t2", "t3"}

Unlocked == [readers |-> {}, writer |-> {}]

NotSeen == [overlapped |-> FALSE, atLock |-> {}]

SeqIdle ==
    /\ resp = RespNull
    /\ lastCmd = NoCmd
    /\ lastSet = [k \in Keys |-> [f \in Fields |-> None]]
    /\ overwrote = None

ConcIdle ==
    /\ pc = [t \in Tasks |-> "idle"]
    /\ tcmd = [t \in Tasks |-> NoCmd]
    /\ snap = [t \in Tasks |-> EmptyMap]
    /\ tresp = [t \in Tasks |-> RespNull]
    /\ lock = [k \in Keys |-> Unlocked]
    /\ committed = [k \in Keys |-> None]
    /\ seen = [t \in Tasks |-> NotSeen]

NoResult == [tag |-> "None", text |-> <<>>]
NoLength == [tag |-> "None", len |-> 0]

CodecIdle ==
    /\ mode = "idle"
    /\ buf = <<>>
    /\ res = NoResult
    /\ incomplete = FALSE
    /\ retried = FALSE
    /\ before = <<>>
    /\ rest = <<>>
    /\ sent = <<>>
    /\ got = <<>>
    /\ explen = NoLength

NotParsed == [tag |-> "None", cmd |-> NoCmd]

ParseIdle ==
    /\ arr = <<>>
    /\ target = ""
    /\ parsed = NotParsed

----------------------------------------------------------------------------
(* Spec: one client executes commands one after the other on one Backend.   *)

\* Backend::new(): no key has a container.
Init ==
    /\ hmap = EmptyMap
    /\ SeqIdle
    /\ ConcIdle
    /\ CodecIdle
    /\ ParseIdle

\* HGet{key, field}.execute(&backend)
HGet(k, f) ==
    LET cmd == HGetCmd(k, f)
    IN  /\ resp' = HGetExecute(hmap, cmd)
        /\ hmap' = HGetBackend(hmap, cmd)
        /\ lastCmd' = cmd
        /\ UNCHANGED <<lastSet, overwrote, concVars, codecVars, parseVars>>

\* HSet{key, field, value}.execute(&backend)
HSet(k, f, v) ==
    LET cmd == HSetCmd(k, f, v)
    IN  /\ hmap' = HSetBackend(hmap, cmd)
        /\ resp' = HSetResult(cmd)
        /\ lastCmd' = cmd
        /\ lastSet' = [lastSet EXCEPT ![k][f] = Some(v)]
        /\ overwrote' = IF lastSet[k][f] \notin {None, Some(v)}
                        THEN Some(<<k, f>>)
                        ELSE None
        /\ UNCHANGED <<concVars, codecVars, parseVars>>

\* HGetAll{key}.execute(&backend)
HGetAll(k) ==
    LET cmd == HGetAllCmd(k)
        o == BackendHGetAll(hmap, k)
        fields == IF o # None THEN DOMAIN Unwrap(o) ELSE {}
    IN  /\ \E perm \in IterOrders(fields) : resp' = HGetAllResult(o, perm)
        /\ hmap' = HGetAllBackend(hmap, cmd)
        /\ lastCmd' = cmd
        /\ UNCHANGED <<lastSet, overwrote, concVars, codecVars, parseVars>>

Next ==
    \/ \E k \in Keys, f \in Fields : HGet(k, f)
    \/ \E k \in Keys, f \in Fields, v \in Values : HSet(k, f, v)
    \/ \E k \in Keys : HGetAll(k)

Spec == Init /\ [][Next]_vars

----------------------------------------------------------------------------
\* Every frame HGetAll{k}.execute may return on backend h.
HGetAllResults(h, k) ==
    LET o == BackendHGetAll(h, k)
        fields == IF o # None THEN DOMAIN Unwrap(o) ELSE {}
    IN  {HGetAllResult(o, perm) : perm \in IterOrders(fields)}

\* The fields of key k some executed HSet wrote.
FieldsSet(k) == {f \in Fields : lastSet[k][f] # None}

----------------------------------------------------------------------------
(* Claims about the hash commands, checked under Spec.                      *)

(* C1: last write wins.  After any sequence of executed commands,          *)
(* HGet{k,f} returns the value of the most recent HSet on (k,f), whenever  *)
(* such an HSet occurred: both the HGet just executed and an HGet executed *)
(* next on any (k,f).                                                      *)
C1_LastWriteWins ==
    /\ \A k \in Keys, f \in Fields :
          lastSet[k][f] # None =>
              HGetExecute(hmap, HGetCmd(k, f)) = Unwrap(lastSet[k][f])
    /\ (lastCmd.op = "HGet" /\ lastSet[lastCmd.key][lastCmd.field] # None) =>
          resp = Unwrap(lastSet[lastCmd.key][lastCmd.field])

\* HSet k f a, HSet k f b (b # a), then HGet k f has returned b.
C1_Witness ==
    /\ lastCmd.op = "HGet"
    /\ overwrote = Some(<<lastCmd.key, lastCmd.field>>)
    /\ resp = BulkString("b")

(* C2: hash isolation.  A step executing HSet{k2,f2,v} leaves what         *)
(* HGet{k1,f1} and HGetAll{k1} return unchanged for every key k1 # k2,     *)
(* and what HGet{k2,f1} returns unchanged for every field f1 # f2.         *)
C2_HashIsolation ==
    [][\A k2 \in Keys, f2 \in Fields, v \in Values :
          HSet(k2, f2, v) =>
              /\ \A k1 \in Keys \ {k2} :
                    /\ HGetAllResults(hmap', k1) = HGetAllResults(hmap, k1)
                    /\ \A f1 \in Fields :
                          HGetExecute(hmap', HGetCmd(k1, f1))
                              = HGetExecute(hmap, HGetCmd(k1, f1))
              /\ \A f1 \in Fields \ {f2} :
                    HGetExecute(hmap', HGetCmd(k2, f1))
                        = HGetExecute(hmap, HGetCmd(k2, f1))]_vars

\* HSet k1 f1 a and HSet k1 f2 a were executed, then HSet k2 f1 b: k1 still
\* holds a at f1 and at f2.
C2_Witness ==
    /\ lastCmd = HSetCmd("k2", "f1", BulkString("b"))
    /\ lastSet["k1"]["f1"] = Some(BulkString("a"))
    /\ lastSet["k1"]["f2"] = Some(BulkString("a"))
    /\ HGetExecute(hmap, HGetCmd("k1", "f1")) = BulkString("a")
    /\ HGetExecute(hmap, HGetCmd("k2", "f1")) = BulkString("b")

(* C3: absent key or field.  HGet{k,f} returns the Null frame whenever no  *)
(* HSet on (k,f) has been executed, whether k has no container or k has a  *)
(* container without field f.                                              *)
C3_AbsentIsNull ==
    /\ \A k \in Keys, f \in Fields :
          lastSet[k][f] = None => HGetExecute(hmap, HGetCmd(k, f)) = RespNull
    /\ (lastCmd.op = "HGet" /\ lastSet[lastCmd.key][lastCmd.field] = None) =>
          resp = RespNull

\* HGet k1 f2 returned Null on a backend where k1 holds only f1 and k2 has no
\* container.
C3_Witness ==
    /\ lastCmd = HGetCmd("k1", "f2")
    /\ resp = RespNull
    /\ DOMAIN hmap = {"k1"}
    /\ DOMAIN hmap["k1"] = {"f1"}
    /\ HGetExecute(hmap, HGetCmd("k2", "f1")) = RespNull

(* C4: HGetAll{k} returns a Map frame holding exactly one pair (f, v) for  *)
(* each field f ever set under k, v the latest value set for (k,f), if an  *)
(* HSet on k has been executed; otherwise it returns the empty Array.      *)
C4_IsExact(r, k) ==
    IF FieldsSet(k) # {}
    THEN /\ r.type = "Map"
         /\ DOMAIN r.val = FieldsSet(k)
         /\ \A f \in FieldsSet(k) : r.val[f] = Unwrap(lastSet[k][f])
    ELSE r = EmptyArray

C4_HGetAllExact ==
    /\ \A k \in Keys : \A r \in HGetAllResults(hmap, k) : C4_IsExact(r, k)
    /\ lastCmd.op = "HGetAll" => C4_IsExact(resp, lastCmd.key)

\* HGetAll k1 returned a two-pair Map after f1 was overwritten, while
\* HGetAll k2 returns the empty Array.
C4_Witness ==
    /\ lastCmd = HGetAllCmd("k1")
    /\ resp.type = "Map"
    /\ DOMAIN resp.val = {"f1", "f2"}
    /\ overwrote = Some(<<"k1", "f1">>)
    /\ HGetAllResults(hmap, "k2") = {EmptyArray}

(* C5: HSet{k,f,v} returns the simple-string frame OK in every backend     *)
(* state, whether (k,f) was absent or held a value, for every variant of v.*)
C5_HSetReturnsOK ==
    lastCmd.op = "HSet" => resp = [type |-> "SimpleString", val |-> "OK"]

\* An HSet that replaced a stored value by a Null frame returned OK.
C5_Witness ==
    /\ lastCmd.op = "HSet"
    /\ lastCmd.value = RespNull
    /\ overwrote = Some(<<lastCmd.key, lastCmd.field>>)
    /\ resp = RESP_OK

(* C14: HGet and HGetAll are reads.  A step executing HGet{k,f} or         *)
(* HGetAll{k}, on a present or an absent key or field, leaves the whole    *)
(* backend state unchanged; in particular a read of a key without          *)
(* container creates none, so HGetAll on that key still returns the empty  *)
(* Array afterwards.                                                       *)
C14_ReadsLeaveBackend ==
    [][\A k \in Keys :
          ((\E f \in Fields : HGet(k, f)) \/ HGetAll(k)) =>
              /\ hmap' = hmap
              /\ k \notin DOMAIN hmap =>
                    HGetAllResults(hmap', k) = {EmptyArray}]_vars

\* HGetAll k2 returned the empty Array on a backend that holds only k1, and
\* k2 has no container afterwards.
C14_Witness ==
    /\ lastCmd = HGetAllCmd("k2")
    /\ resp = EmptyArray
    /\ DOMAIN hmap = {"k1"}
    /\ lastSet["k1"]["f1"] # None
    /\ HGetAllResults(hmap, "k2") = {EmptyArray}

(* C17 as claimed: HGet{k,f} returns Null only if no HSet on (k,f) has     *)
(* been executed.                                                          *)
C17_NullOnlyIfNeverSet ==
    /\ \A k \in Keys, f \in Fields :
          HGetExecute(hmap, HGetCmd(k, f)) = RespNull => lastSet[k][f] = None
    /\ (lastCmd.op = "HGet" /\ resp = RespNull) =>
          lastSet[lastCmd.key][lastCmd.field] = None

(* C17 amended: HGet{k,f} returns Null only if no HSet on (k,f) has been   *)
(* executed or the most recent HSet on (k,f) stored the Null frame: HSet   *)
(* takes any frame as its value, Null included, and HGet returns the       *)
(* stored frame as it is.                                                  *)
C17_NullOnlyIfNeverSetOrNullStored ==
    /\ \A k \in Keys, f \in Fields :
          HGetExecute(hmap, HGetCmd(k, f)) = RespNull =>
              lastSet[k][f] \in {None, Some(RespNull)}
    /\ (lastCmd.op = "HGet" /\ resp = RespNull) =>
          lastSet[lastCmd.key][lastCmd.field] \in {None, Some(RespNull)}

\* HSet k1 f1 Null was executed, then HGet k1 f1 returned Null although the
\* field exists; HGet k2 f1 returns Null because k2 was never set.
C17_Witness ==
    /\ lastCmd = HGetCmd("k1", "f1")
    /\ resp = RespNull
    /\ lastSet["k1"]["f1"] = Some(RespNull)
    /\ BackendHGet(hmap, "k1", "f1") = Some(RespNull)
    /\ lastSet["k2"]["f1"] = None
    /\ HGetExecute(hmap, HGetCmd("k2", "f1")) = RespNull

(* C20: presence is monotonic and containers are never empty.  No step    *)
(* executing HSet, HGet or HGetAll removes a key or a field: a (k,f) for   *)
(* which HGet returns a stored value before the step has one after it;     *)
(* after every step each container of the backend holds at least one       *)
(* field, and HGetAll has not returned, and cannot return, an empty Map.   *)
C20_PresenceMonotonic ==
    [][/\ \A k \in Keys, f \in Fields :
             BackendHGet(hmap, k, f) # None => BackendHGet(hmap', k, f) # None
       /\ \A k \in DOMAIN hmap : k \in DOMAIN hmap'
       /\ \A k \in DOMAIN hmap' : DOMAIN hmap'[k] # {}
       /\ \A k \in Keys : RespMapFrame(EmptyMap) \notin HGetAllResults(hmap', k)
       /\ lastCmd'.op = "HGetAll" => resp' # RespMapFrame(EmptyMap)]_vars

\* k2's field f2 was set, then overwritten with Null; HGetAll k2 returned a
\* Map with the one pair, and k1 has no container.
C20_Witness ==
    /\ lastCmd = HGetAllCmd("k2")
    /\ overwrote = Some(<<"k2", "f2">>)
    /\ resp = RespMapFrame([f \in {"f2"} |-> RespNull])
    /\ DOMAIN hmap = {"k2"}

----------------------------------------------------------------------------
(* ConcSpec: tasks, one per connection, execute commands on one Backend.    *)
(* The Backend guards each key's container with a read-write lock: hset     *)
(* holds it for writing while it creates the container and inserts the      *)
(* field, hget and hgetall hold it for reading; hgetall copies the          *)
(* container entry by entry while it holds the lock.                        *)

ConcValues == {BulkString("a"), BulkString("b")}

\* The tasks contend for one key.
ConcKeys == {"k1"}

Commands ==
    {HGetCmd(k, f) : k \in ConcKeys, f \in Fields}
        \cup {HSetCmd(k, f, v) : k \in ConcKeys, f \in Fields, v \in ConcValues}
        \cup {HGetAllCmd(k) : k \in ConcKeys}

\* A task receives a command and calls execute.
Begin(t, cmd) ==
    /\ pc[t] = "idle"
    /\ pc' = [pc EXCEPT ![t] = "start"]
    /\ tcmd' = [tcmd EXCEPT ![t] = cmd]
    /\ UNCHANGED <<hmap, snap, tresp, lock, committed, seen>>
    /\ UNCHANGED <<seqVars, codecVars, parseVars>>

\* backend.hset: take the key's lock for writing and create the key's
\* container if it is absent.
HSetEntry(t) ==
    /\ pc[t] = "start" /\ tcmd[t].op = "HSet"
    /\ lock[tcmd[t].key] = Unlocked
    /\ lock' = [lock EXCEPT ![tcmd[t].key].writer = {t}]
    /\ hmap' = [x \in DOMAIN hmap \cup {tcmd[t].key} |->
                   IF x \in DOMAIN hmap THEN hmap[x] ELSE EmptyMap]
    /\ pc' = [pc EXCEPT ![t] = "insert"]
    /\ UNCHANGED <<tcmd, snap, tresp, committed, seen>>
    /\ UNCHANGED <<seqVars, codecVars, parseVars>>

\* backend.hset: insert the field, release the lock; HSet::execute returns.
HSetInsert(t) ==
    LET cmd == tcmd[t]
        k == cmd.key
    IN  /\ pc[t] = "insert"
        /\ hmap' = HSetBackend(hmap, cmd)
        /\ lock' = [lock EXCEPT ![k].writer = {}]
        /\ committed' = [committed EXCEPT ![k] = Some(hmap'[k])]
        /\ seen' = [u \in Tasks |->
                       IF pc[u] \in {"start", "copy"} /\ tcmd[u] = HGetAllCmd(k)
                       THEN [seen[u] EXCEPT !.overlapped = TRUE]
                       ELSE seen[u]]
        /\ tresp' = [tresp EXCEPT ![t] = HSetResult(cmd)]
        /\ pc' = [pc EXCEPT ![t] = "done"]
        /\ lastSet' = [lastSet EXCEPT ![k][cmd.field] = Some(cmd.value)]
        /\ UNCHANGED <<tcmd, snap>>
        /\ UNCHANGED <<resp, lastCmd, overwrote, codecVars, parseVars>>

\* HGet::execute: backend.hget reads under the key's lock.
HGetRead(t) ==
    /\ pc[t] = "start" /\ tcmd[t].op = "HGet"
    /\ lock[tcmd[t].key].writer = {}
    /\ tresp' = [tresp EXCEPT ![t] = HGetExecute(hmap, tcmd[t])]
    /\ pc' = [pc EXCEPT ![t] = "done"]
    /\ seen' = [seen EXCEPT ![t].atLock = lastSet[tcmd[t].key][tcmd[t].field]]
    /\ UNCHANGED <<hmap, tcmd, snap, lock, committed>>
    /\ UNCHANGED <<seqVars, codecVars, parseVars>>

\* backend.hgetall: take the key's lock for reading.
HGetAllLock(t) ==
    /\ pc[t] = "start" /\ tcmd[t].op = "HGetAll"
    /\ lock[tcmd[t].key].writer = {}
    /\ lock' = [lock EXCEPT ![tcmd[t].key].readers = @ \cup {t}]
    /\ snap' = [snap EXCEPT ![t] = EmptyMap]
    /\ seen' = [seen EXCEPT ![t].atLock = committed[tcmd[t].key]]
    /\ pc' = [pc EXCEPT ![t] = "copy"]
    /\ UNCHANGED <<hmap, tcmd, tresp, committed>>
    /\ UNCHANGED <<seqVars, codecVars, parseVars>>

\* backend.hgetall: copy one more entry of the container into the snapshot.
HGetAllCopy(t, f) ==
    LET k == tcmd[t].key
    IN  /\ pc[t] = "copy"
        /\ k \in DOMAIN hmap
        /\ f \in DOMAIN hmap[k] \ DOMAIN snap[t]
        /\ snap' = [snap EXCEPT ![t] =
                       [y \in DOMAIN snap[t] \cup {f} |->
                           IF y = f THEN hmap[k][f] ELSE snap[t][y]]]
        /\ UNCHANGED <<hmap, pc, tcmd, tresp, lock, committed, seen>>
        /\ UNCHANGED <<seqVars, codecVars, parseVars>>

\* backend.hgetall returns, releasing the lock; HGetAll::execute builds the
\* frame from the snapshot.
HGetAllDone(t) ==
    LET k == tcmd[t].key
        o == IF k \in DOMAIN hmap THEN Some(snap[t]) ELSE None
    IN  /\ pc[t] = "copy"
        /\ k \in DOMAIN hmap => DOMAIN snap[t] = DOMAIN hmap[k]
        /\ lock' = [lock EXCEPT ![k].readers = @ \ {t}]
        /\ \E perm \in IterOrders(DOMAIN snap[t]) :
              tresp' = [tresp EXCEPT ![t] = HGetAllResult(o, perm)]
        /\ pc' = [pc EXCEPT ![t] = "done"]
        /\ UNCHANGED <<hmap, tcmd, snap, committed, seen>>
        /\ UNCHANGED <<seqVars, codecVars, parseVars>>

\* The task has written the response; it waits for its next command.
Return(t) ==
    /\ pc[t] = "done"
    /\ pc' = [pc EXCEPT ![t] = "idle"]
    /\ tcmd' = [tcmd EXCEPT ![t] = NoCmd]
    /\ snap' = [snap EXCEPT ![t] = EmptyMap]
    /\ tresp' = [tresp EXCEPT ![t] = RespNull]
    /\ seen' = [seen EXCEPT ![t] = NotSeen]
    /\ UNCHANGED <<hmap, lock, committed>>
    /\ UNCHANGED <<seqVars, codecVars, parseVars>>

ConcNext ==
    \E t \in Tasks :
        \/ \E cmd \in Commands : Begin(t, cmd)
        \/ HSetEntry(t)
        \/ HSetInsert(t)
        \/ HGetRead(t)
        \/ HGetAllLock(t)
        \/ \E f \in Fields : HGetAllCopy(t, f)
        \/ HGetAllDone(t)
        \/ Return(t)

ConcSpec == Init /\ [][ConcNext]_vars

(* C6: consistent snapshot under concurrency.  The frame an HGetAll{k}     *)
(* returns while other tasks run HSet on k is the content k's container    *)
(* had at one point between the start and the end of the HGetAll, the      *)
(* moment hgetall took the lock: the Map of the container committed then,  *)
(* or the empty Array if k had no container then.  No HSet changes the     *)
(* container between that moment and the end of the copy.                  *)
C6_ConsistentSnapshot ==
    \A t \in Tasks :
        /\ (pc[t] = "done" /\ tcmd[t].op = "HGetAll") =>
              IF seen[t].atLock = None
              THEN tresp[t] = EmptyArray
              ELSE /\ tresp[t].type = "Map"
                   /\ Some(tresp[t].val) = seen[t].atLock
        /\ (pc[t] = "copy") =>
              /\ committed[tcmd[t].key] = seen[t].atLock
              /\ BackendHGetAll(hmap, tcmd[t].key) = seen[t].atLock

\* An HGetAll k1 returned a two-field Map; an HSet on k1 finished between its
\* call and its return, and another HSet on k1 has been issued.
C6_Witness ==
    \E t \in Tasks :
        /\ pc[t] = "done" /\ tcmd[t] = HGetAllCmd("k1")
        /\ tresp[t].type = "Map"
        /\ DOMAIN tresp[t].val = {"f1", "f2"}
        /\ seen[t].overlapped
        /\ \E u \in Tasks \ {t} :
              pc[u] = "start" /\ tcmd[u].op = "HSet" /\ tcmd[u].key = "k1"

\* No task is inside a command.
Quiescent == \A t \in Tasks : pc[t] \in {"idle", "done"}

(* C16: linearizable reads and writes of one field.  While several tasks  *)
(* run HSet and HGet on the same (k,f), every HGet returns Null, if no     *)
(* HSet on (k,f) has inserted before its read, or else the value of the    *)
(* HSet on (k,f) that inserted last before its read: a value some HSet     *)
(* wrote, never a mixed or invented one.  Once all commands have finished, *)
(* HGet{k,f} returns the value of the HSet on (k,f) that was linearized    *)
(* last.                                                                   *)
C16_LinearizableField ==
    /\ \A t \in Tasks :
          (pc[t] = "done" /\ tcmd[t].op = "HGet") =>
              /\ tresp[t] = IF seen[t].atLock = None
                            THEN RespNull
                            ELSE Unwrap(seen[t].atLock)
              /\ tresp[t] \in {RespNull} \cup ConcValues
    /\ Quiescent =>
          \A k \in ConcKeys, f \in Fields :
              HGetExecute(hmap, HGetCmd(k, f)) =
                  IF lastSet[k][f] = None THEN RespNull
                  ELSE Unwrap(lastSet[k][f])

\* Three tasks ran HSet k1 f1 a, HSet k1 f1 b and HGet k1 f1 without any of
\* them returning in between: the HGet read a, the HSet of b inserted last,
\* and HGet k1 f1 now returns b.
C16_Witness ==
    /\ Quiescent
    /\ \E t, u, w \in Tasks :
          /\ pc[t] = "done" /\ tcmd[t] = HSetCmd("k1", "f1", BulkString("a"))
          /\ pc[u] = "done" /\ tcmd[u] = HSetCmd("k1", "f1", BulkString("b"))
          /\ pc[w] = "done" /\ tcmd[w] = HGetCmd("k1", "f1")
          /\ tresp[w] = BulkString("a")
    /\ lastSet["k1"]["f1"] = Some(BulkString("b"))
    /\ HGetExecute(hmap, HGetCmd("k1", "f1")) = BulkString("b")

----------------------------------------------------------------------------
(* CodecSpec: the connection loop's buffer.  Either arbitrary bytes are put *)
(* into it ("raw"), or the bytes of encoded simple strings arrive in chunks *)
(* of any size ("stream"); decode is called at any time.                    *)

MaxText   == 2   \* longest text encoded, in scalar values
MaxStream == 9   \* most bytes the stream carries in all
MaxBuf    == 5   \* longest buffer of arbitrary bytes

\* The bytes put into a raw buffer: '+', 'a', CR, LF and the invalid 0xFF.
ByteAlphabet == {Plus, 97, CR, LF, 255}

\* The scalar values of the texts encoded: 'a', CR, LF and U+FFFD.
TextChars == {97, CR, LF, REPLACEMENT}

Texts == UNION {[1..n -> TextChars] : n \in 0..MaxText}

RECURSIVE EncodeAll(_)
EncodeAll(values) ==
    IF values = <<>> THEN <<>>
    ELSE Encode(SimpleStringNew(Head(values))) \o EncodeAll(Tail(values))

\* The peer encodes one more simple string onto the wire.
Send(v) ==
    /\ mode \in {"idle", "stream"}
    /\ Len(EncodeAll(sent)) + Len(Encode(SimpleStringNew(v))) <= MaxStream
    /\ mode' = "stream"
    /\ rest' = rest \o Encode(SimpleStringNew(v))
    /\ sent' = Append(sent, v)
    /\ UNCHANGED <<buf, res, incomplete, retried, before, got, explen>>
    /\ UNCHANGED <<hmap, seqVars, concVars, parseVars>>

\* buf.extend_from_slice(..): the next n bytes of the wire reach the buffer.
Recv(n) ==
    /\ mode = "stream"
    /\ n \in 1..Len(rest)
    /\ buf' = buf \o Take(rest, n)
    /\ rest' = Drop(rest, n)
    /\ res' = NoResult
    /\ before' = <<>>
    /\ explen' = NoLength
    /\ UNCHANGED <<mode, incomplete, retried, sent, got>>
    /\ UNCHANGED <<hmap, seqVars, concVars, parseVars>>

\* buf.put_u8(b): an arbitrary byte reaches the buffer.
PutByte(b) ==
    /\ mode \in {"idle", "raw"}
    /\ Len(buf) < MaxBuf
    /\ mode' = "raw"
    /\ buf' = Append(buf, b)
    /\ res' = NoResult
    /\ before' = <<>>
    /\ explen' = NoLength
    /\ UNCHANGED <<incomplete, retried, rest, sent, got>>
    /\ UNCHANGED <<hmap, seqVars, concVars, parseVars>>

\* SimpleString::decode(&mut buf)
Decode ==
    /\ res' = DecodeResult(buf)
    /\ buf' = DecodeBuf(buf)
    /\ before' = buf
    /\ retried' = incomplete
    /\ incomplete' = (res'.tag = "NotComplete")
    /\ got' = IF mode = "stream" /\ res'.tag = "Ok"
              THEN Append(got, res'.text)
              ELSE got
    /\ explen' = IF res.tag = "None" THEN explen ELSE NoLength
    /\ UNCHANGED <<mode, rest, sent>>
    /\ UNCHANGED <<hmap, seqVars, concVars, parseVars>>

\* SimpleString::expect_length(&buf), called on a buffer of arbitrary bytes:
\* it borrows the bytes, the buffer stays.
ExpectLengthCall ==
    /\ mode \in {"idle", "raw"}
    /\ mode' = "raw"
    /\ explen' = ExpectLength(buf)
    /\ res' = NoResult
    /\ before' = buf
    /\ UNCHANGED <<buf, incomplete, retried, rest, sent, got>>
    /\ UNCHANGED <<hmap, seqVars, concVars, parseVars>>

CodecNext ==
    \/ \E v \in Texts : Send(v)
    \/ \E n \in 1..MaxStream : Recv(n)
    \/ \E b \in ByteAlphabet : PutByte(b)
    \/ Decode
    \/ ExpectLengthCall

CodecSpec == Init /\ [][CodecNext]_vars

----------------------------------------------------------------------------
(* Claims about the simple-string codec, checked under CodecSpec.           *)

\* A valid simple string: its text holds neither CR nor LF.
NoCrLf(t) == \A i \in DOMAIN t : t[i] \notin {CR, LF}

\* The text holds the terminator sequence CR LF.
HasCrlfPair(t) == \E i \in 1..(Len(t) - 1) : t[i] = CR /\ t[i + 1] = LF

AllValid(values) == \A i \in DOMAIN values : NoCrLf(values[i])

\* The number of frames of the stream decoded before the last decode call.
DecodedBefore == IF res.tag = "Ok" THEN Len(got) - 1 ELSE Len(got)

(* C7: when SimpleString::decode returns NotComplete, the buffer is        *)
(* byte-for-byte what it was before the call.                              *)
C7_NotCompleteKeepsBuffer ==
    res.tag = "NotComplete" => buf = before

\* decode of "+a\r" returned NotComplete and left the three bytes in place.
C7_Witness ==
    /\ res.tag = "NotComplete"
    /\ before = <<Plus, 97, CR>>
    /\ buf = <<Plus, 97, CR>>

(* C8: incomplete-then-complete.  While the buffer holds only a proper     *)
(* prefix of a valid encoded frame, decode returns NotComplete and keeps   *)
(* the buffer; once the remainder has been appended, decode returns the    *)
(* original value; the bytes buffered and still on the wire are always     *)
(* exactly the encoded frames not yet decoded (none lost, none duplicated).*)
C8_IncompleteThenComplete ==
    (mode = "stream" /\ AllValid(sent)) =>
        /\ Len(got) <= Len(sent)
        /\ got = Take(sent, Len(got))
        /\ buf \o rest = EncodeAll(Drop(sent, Len(got)))
        /\ (res.tag # "None" /\ DecodedBefore < Len(sent)) =>
              LET v == sent[DecodedBefore + 1]
              IN  IF Len(before) < Len(Encode(v))
                  THEN res.tag = "NotComplete" /\ buf = before
                  ELSE res = [tag |-> "Ok", text |-> v]

\* "+a" was buffered and decode returned NotComplete; then the remainder
\* "a\r\n" arrived and the second decode returned "aa", leaving nothing.
C8_Witness ==
    /\ mode = "stream"
    /\ sent = <<(<<97, 97>>)>>
    /\ retried
    /\ res = [tag |-> "Ok", text |-> <<97, 97>>]
    /\ before = Encode(<<97, 97>>)
    /\ buf = <<>>
    /\ rest = <<>>

(* C9 as claimed: for every text v that SimpleString::new accepts, decode  *)
(* of a buffer holding exactly encode(v) returns v.                        *)
C9_RoundTripEveryText ==
    \A v \in Texts :
        (res.tag # "None" /\ before = Encode(SimpleStringNew(v))) =>
            res = [tag |-> "Ok", text |-> v]

(* C9 amended: for every text v without the sequence CR LF inside, decode  *)
(* of a buffer holding exactly encode(v) returns v and empties the buffer. *)
C9_RoundTrip ==
    \A v \in Texts :
        (~HasCrlfPair(v) /\ res.tag # "None"
            /\ before = Encode(SimpleStringNew(v))) =>
            /\ res = [tag |-> "Ok", text |-> v]
            /\ buf = <<>>

\* The encoding of "a" followed by U+FFFD was decoded back to the same text.
C9_Witness ==
    /\ before = Encode(SimpleStringNew(<<97, REPLACEMENT>>))
    /\ before = <<Plus, 97, 239, 191, 189, CR, LF>>
    /\ res = [tag |-> "Ok", text |-> <<97, REPLACEMENT>>]
    /\ buf = <<>>

(* C10: buffer draining.  A successful decode removes from the front of    *)
(* the buffer exactly the bytes up to its frame's terminator and leaves    *)
(* the bytes after it unchanged; when the buffer holds all the remaining   *)
(* valid frames of a stream, each decode returns the next value in wire    *)
(* order, and after the last one the buffer is empty.                      *)
C10_Draining ==
    /\ res.tag = "Ok" =>
          \E k \in (Len(PREFIX) + CRLF_LEN)..Len(before) :
              /\ buf = Drop(before, k)
              /\ before[k - 1] = CR /\ before[k] = LF
              /\ CrlfAt(Take(before, k - 1), 0) = {}
    /\ (mode = "stream" /\ AllValid(sent) /\ rest = <<>>) =>
          /\ (res.tag # "None" /\ DecodedBefore < Len(sent)) =>
                /\ res = [tag |-> "Ok", text |-> sent[DecodedBefore + 1]]
                /\ got = Take(sent, DecodedBefore + 1)
                /\ before = Encode(sent[DecodedBefore + 1]) \o buf
                /\ buf = EncodeAll(Drop(sent, DecodedBefore + 1))
          /\ Len(got) = Len(sent) => (got = sent /\ buf = <<>>)

\* The buffer held the frames of "a" and "aa"; the first decode returned "a"
\* and left exactly the second frame.
C10_Witness ==
    /\ mode = "stream"
    /\ sent = << <<97>>, <<97, 97>> >>
    /\ before = EncodeAll(sent)
    /\ res = [tag |-> "Ok", text |-> <<97>>]
    /\ got = << <<97>> >>
    /\ buf = Encode(<<97, 97>>)
    /\ rest = <<>>

\* The wire bytes of simple strings: for each, '+', the bytes of its text,
\* CR, LF.
RECURSIVE Wire(_)
Wire(values) ==
    IF values = <<>> THEN <<>>
    ELSE <<43>> \o Utf8(Head(values)) \o <<13, 10>> \o Wire(Tail(values))

(* C15: SimpleString::encode is total and deterministic and produces       *)
(* exactly '+', the bytes of the text unchanged, then CR LF, for every     *)
(* text, with CR or LF inside or not: as long as no frame has been         *)
(* decoded, the bytes on the wire and in the buffer are these bytes for    *)
(* each value encoded, in order.                                           *)
C15_EncodeExact ==
    (mode = "stream" /\ got = <<>>) => buf \o rest = Wire(sent)

\* The text "a", CR was encoded as '+', 'a', CR, CR, LF.
C15_Witness ==
    /\ mode = "stream"
    /\ sent = <<(<<97, CR>>)>>
    /\ buf = <<>>
    /\ rest = <<43, 97, 13, 13, 10>>

(* C18: expect_length agrees with decode.  For every buffer, expect_length *)
(* returns a length exactly when decode of the same bytes succeeds; that   *)
(* length is the number of bytes decode removes, the index where the       *)
(* text's terminator starts plus 2; otherwise expect_length fails with the *)
(* error decode fails with; and expect_length leaves the buffer as it was. *)
C18_ExpectLengthAgrees ==
    explen.tag # "None" =>
        IF res.tag = "None"
        THEN buf = before
        ELSE /\ explen.tag = "Ok" <=> res.tag = "Ok"
             /\ res.tag # "Ok" => (explen.tag = res.tag /\ buf = before)
             /\ res.tag = "Ok" =>
                   /\ explen.len = Len(before) - Len(buf)
                   /\ explen.len \in 3..Len(before)
                   /\ before[explen.len - 1] = 13 /\ before[explen.len] = 10
                   /\ \A i \in 2..(explen.len - 2) :
                         ~(before[i] = 13 /\ before[i + 1] = 10)

\* expect_length of "+a\r\n+" returned 4; decode of the same bytes returned
\* "a" and removed 4 bytes.
C18_Witness ==
    /\ before = <<43, 97, 13, 10, 43>>
    /\ explen = [tag |-> "Ok", len |-> 4]
    /\ res = [tag |-> "Ok", text |-> <<97>>]
    /\ buf = <<43>>

(* C19 as claimed: the text of every SimpleString that decode returns      *)
(* contains neither CR nor LF, for every buffer on which decode succeeds.  *)
(* decode ends the text at the first CR LF pair, so a CR or an LF that     *)
(* stands alone before it is part of the text returned.                    *)
C19_DecodedTextNoCrLf ==
    res.tag = "Ok" => NoCrLf(res.text)

----------------------------------------------------------------------------
(* ParseSpec: the connection loop reads a request array element by element  *)
(* and converts the array read so far to HGet, HSet or HGetAll.             *)

MaxArr == 4   \* most elements of a request array

\* The frames a request array is made of: the command names in lower, mixed
\* and upper case, the keys "k" and "e-acute" (two bytes), the invalid UTF-8
\* byte string 0xFF, the Null frame and the empty Array.
WireFrames ==
    {BulkString(HGET), BulkString(<<72, 71, 101, 116>>),
     BulkString(HSET), BulkString(<<72, 83, 69, 84>>),
     BulkString(HGETALL), BulkString(<<72, 71, 101, 116, 65, 108, 108>>),
     BulkString(<<107>>), BulkString(<<195, 169>>), BulkString(<<255>>),
     RespNull, EmptyArray}

\* RespArray::decode reads one more element of the request.
PushFrame(f) ==
    /\ Len(arr) < MaxArr
    /\ arr' = Append(arr, f)
    /\ target' = ""
    /\ parsed' = NotParsed
    /\ UNCHANGED <<hmap, seqVars, concVars, codecVars>>

\* HGet::try_from(array)
TryIntoHGet ==
    /\ target' = "HGet"
    /\ parsed' = HGetTryFrom(arr)
    /\ UNCHANGED <<arr, hmap, seqVars, concVars, codecVars>>

\* HSet::try_from(array)
TryIntoHSet ==
    /\ target' = "HSet"
    /\ parsed' = HSetTryFrom(arr)
    /\ UNCHANGED <<arr, hmap, seqVars, concVars, codecVars>>

\* HGetAll::try_from(array)
TryIntoHGetAll ==
    /\ target' = "HGetAll"
    /\ parsed' = HGetAllTryFrom(arr)
    /\ UNCHANGED <<arr, hmap, seqVars, concVars, codecVars>>

ParseNext ==
    \/ \E f \in WireFrames : PushFrame(f)
    \/ TryIntoHGet
    \/ TryIntoHSet
    \/ TryIntoHGetAll

ParseSpec == Init /\ [][ParseNext]_vars

----------------------------------------------------------------------------
(* Claims about the command parser, checked under ParseSpec.                *)

\* The name and the number of arguments of each command type.
NameOf(t) == IF t = "HGet" THEN HGET ELSE IF t = "HSet" THEN HSET ELSE HGETALL
ArityOf(t) == IF t = "HGet" THEN 2 ELSE IF t = "HSet" THEN 3 ELSE 1

\* The array's first element is a bulk string that spells the name in any
\* letter case.
Names(a, name) ==
    /\ a # <<>>
    /\ a[1].type = "BulkString"
    /\ Len(a[1].val) = Len(name)
    /\ \A i \in DOMAIN name : a[1].val[i] \in {name[i], name[i] - 32}

(* C11: converting an Array to HGet, HSet or HGetAll returns               *)
(* InvalidCommand, never a command, whenever the array's element count     *)
(* differs from 1 + the command's argument count (2, 3, 1) or its first    *)
(* element is not a bulk string naming that command.                       *)
C11_ArityNameRejection ==
    (parsed.tag # "None"
        /\ (Len(arr) # 1 + ArityOf(target) \/ ~Names(arr, NameOf(target)))) =>
        parsed.tag = "InvalidCommand"

\* The two-element array [hget, k] was rejected as an HGet.
C11_Witness ==
    /\ arr = <<BulkString(HGET), BulkString(<<107>>)>>
    /\ target = "HGet"
    /\ parsed.tag = "InvalidCommand"

\* A bulk string whose bytes are ASCII or the two bytes of U+00E9: the
\* bulk strings of WireFrames that are valid UTF-8.
ValidArg(f) ==
    /\ f.type = "BulkString"
    /\ \/ \A i \in DOMAIN f.val : f.val[i] < 128
       \/ f.val = <<195, 169>>

\* The String such a bulk string spells.
TextOf(f) == IF f.val = <<195, 169>> THEN <<233>> ELSE f.val

\* The array has the command's name, in any letter case, and element count.
WellFormed(a, t) == Len(a) = 1 + ArityOf(t) /\ Names(a, NameOf(t))

(* C12: successful parsing keeps the argument order and ignores the letter *)
(* case of the command name.  [name, a1, a2] with name spelling "hget"     *)
(* gives HGet{key: a1, field: a2}; [name, a1, a2, x] with "hset" gives     *)
(* HSet{key: a1, field: a2, value: x}; [name, a1] with "hgetall" gives     *)
(* HGetAll{key: a1}; and whenever a conversion succeeds, the command holds *)
(* the array's elements in these positions.                                *)
C12_ArgumentOrder ==
    /\ (target = "HGet" /\ WellFormed(arr, "HGet")
            /\ ValidArg(arr[2]) /\ ValidArg(arr[3])) =>
          /\ parsed.tag = "Ok"
          /\ parsed.cmd = HGetCmd(TextOf(arr[2]), TextOf(arr[3]))
    /\ (target = "HSet" /\ WellFormed(arr, "HSet")
            /\ ValidArg(arr[2]) /\ ValidArg(arr[3])) =>
          /\ parsed.tag = "Ok"
          /\ parsed.cmd.op = "HSet"
          /\ parsed.cmd.key = TextOf(arr[2])
          /\ parsed.cmd.field = TextOf(arr[3])
          /\ parsed.cmd.value = arr[4]
    /\ (target = "HGetAll" /\ WellFormed(arr, "HGetAll") /\ ValidArg(arr[2])) =>
          /\ parsed.tag = "Ok"
          /\ parsed.cmd = HGetAllCmd(TextOf(arr[2]))
    /\ parsed.tag = "Ok" =>
          /\ parsed.cmd.op = target
          /\ WellFormed(arr, target)
          /\ Utf8(parsed.cmd.key) = arr[2].val
          /\ target # "HGetAll" => Utf8(parsed.cmd.field) = arr[3].val
          /\ target = "HSet" => parsed.cmd.value = arr[4]

\* [HSET, e-acute, k, Null] became HSet{key: e-acute, field: k, value: Null},
\* the two-byte key read as one scalar value.
C12_Witness ==
    /\ arr = <<BulkString(<<72, 83, 69, 84>>), BulkString(<<195, 169>>),
               BulkString(<<107>>), RespNull>>
    /\ target = "HSet"
    /\ parsed.tag = "Ok"
    /\ parsed.cmd.key = <<233>>
    /\ parsed.cmd.field = <<107>>
    /\ parsed.cmd.value = RespNull

\* The positions of the array that hold the command's key and field.
KeyFieldPositions(t) == IF t = "HGetAll" THEN {2} ELSE {2, 3}

(* C13: for an Array with the right name and element count, the            *)
(* conversion returns InvalidCommand when a key or field position holds a  *)
(* frame that is not a bulk string; it returns Utf8Error when the key and  *)
(* field positions all hold bulk strings and one of them is not valid      *)
(* UTF-8; HSet accepts every frame variant in its value position, valid    *)
(* UTF-8 or not; and every conversion yields a command or one of the two   *)
(* typed errors.                                                           *)
C13_ArgumentShape ==
    parsed.tag # "None" =>
        /\ parsed.tag \in {"Ok", "InvalidCommand", "Utf8Error"}
        /\ parsed.tag # "Ok" => parsed.cmd = NoCmd
        /\ WellFormed(arr, target) =>
              LET pos == KeyFieldPositions(target)
              IN  /\ (\E i \in pos : arr[i].type # "BulkString") =>
                        parsed.tag = "InvalidCommand"
                  /\ ((\A i \in pos : arr[i].type = "BulkString")
                          /\ (\E i \in pos : ~ValidArg(arr[i]))) =>
                        parsed.tag = "Utf8Error"
                  /\ (\A i \in pos : ValidArg(arr[i])) =>
                        /\ parsed.tag = "Ok"
                        /\ target = "HSet" => parsed.cmd.value = arr[4]

\* [hset, k, 0xFF, Null] gave Utf8Error: the field is a bulk string that is
\* not valid UTF-8.
C13_Witness ==
    /\ arr = <<BulkString(HSET), BulkString(<<107>>), BulkString(<<255>>),
               RespNull>>
    /\ target = "HSet"
    /\ parsed.tag = "Utf8Error"

====
